---------------------------- MODULE Spec2Model ----------------------------
(***************************************************************************)
(* A model of the animation engine of src/src/animation.rs: the Animate    *)
(* curve state machine, the AnimateSequence timed queue, and the Mixable   *)
(* blend capability for f32 scalars, driven by a host that constructs an   *)
(* animation and then calls step(dt), normalize() and before() on it.      *)
(*                                                                         *)
(* Numbers.  An f32 value is modelled as an exact extended rational        *)
(* <<n, d>> in lowest terms with d >= 0: d > 0 is the finite value n/d,    *)
(* <<1,0>> is +inf, <<-1,0>> is -inf and <<0,0>> is NaN.  The arithmetic   *)
(* follows IEEE-754 on the special values (0/0 = NaN, x/0 = inf,           *)
(* inf - inf = NaN, 0 * inf = NaN, every comparison with NaN is false).    *)
(* Rounding and the sign of zero are not modelled.  Times (Time and        *)
(* DeltaTime) are whole numbers of ticks; one second is two ticks in the   *)
(* examples taken from the documentation.                                  *)
(***************************************************************************)
EXTENDS Integers, Sequences, FiniteSets, TLC

VARIABLES
    impl,       \* which implementer of Animation the host's instance is
    obj,        \* the instance: an Animate record or an AnimateSequence record
    start,      \* history: the instance as the host last built it
    elapsed,    \* history: the sum of the dt of every step since then
    nsteps,     \* history: the number of step calls so far (normalize included)
    mixcall,    \* the call of a Mixable blend in progress: its arguments
    mixer,      \* the Mixer (for f32, the accumulator) of that call
    added,      \* the number of add calls made on it
    closed,     \* whether close() has been called on it
    out,        \* the value close() returned
    guru,       \* the primary ControllerGuru of the frame
    cells,      \* the Anywhere cells made in the frame; a reply is an index
    partials,   \* the replies pointing() returned, in the order of the calls
    applied,    \* whether apply() has consumed the guru
    cubes,      \* Model.cubes: for each cube, whether grabbed is Some
    ctl,        \* the primary controller's trigger and trigger_delta
    hits,       \* history: what the controller ray hit in the last frame
    panicked    \* whether an expect() has panicked

vars ==
    <<impl, obj, start, elapsed, nsteps, mixcall, mixer, added, closed, out,
      guru, cells, partials, applied, cubes, ctl, hits, panicked>>

\* the variables of the animation and those of a blend call
avars == <<impl, obj, start, elapsed, nsteps>>

mvars == <<mixcall, mixer, added, closed, out>>

\* the variables of the pointer arbitration and of the application's frames
gvars == <<guru, cells, partials, applied, cubes, ctl, hits, panicked>>

-----------------------------------------------------------------------------
(* Bounds of the model *)

MaxDt == 3
MaxSteps == 3
MaxQueue == 3
MaxTime == 2
MaxPairs == 2
MaxQueries == 3
NumCubes == 3

-----------------------------------------------------------------------------
(* f32 arithmetic on extended rationals *)

Abs(i) == IF i < 0 THEN -i ELSE i

Sign(i) == IF i < 0 THEN -1 ELSE IF i > 0 THEN 1 ELSE 0

RECURSIVE Gcd(_, _)
Gcd(x, y) == IF y = 0 THEN x ELSE Gcd(y, x % y)

\* the value n/d in lowest terms; a zero denominator gives inf, -inf or NaN
Norm(n, d) ==
    IF d = 0 THEN <<Sign(n), 0>>
    ELSE LET g == Gcd(Abs(n), Abs(d))
         IN  <<(Sign(d) * n) \div g, Abs(d) \div g>>

R(i) == <<i, 1>>

Zero == R(0)
One == R(1)
Two == R(2)
Three == R(3)
NaN == <<0, 0>>
PInf == <<1, 0>>
NInf == <<-1, 0>>

IsNaN(x) == x = NaN
\* x0 + y0 (the set binds x and y to the operands' values, so that each
\* operand is computed once however deep the expression it comes from)
FAdd(x0, y0) ==
    CHOOSE r \in {IF x[2] = 0 /\ y[2] = 0
                  THEN (IF x = y THEN x ELSE NaN)
                  ELSE Norm(x[1] * y[2] + y[1] * x[2], x[2] * y[2]) :
                  x \in {x0}, y \in {y0}} : TRUE

FNeg(x) == <<-x[1], x[2]>>

FSub(x, y) == FAdd(x, FNeg(y))

\* x0 * y0 (operands bound as in FAdd)
FMul(x0, y0) ==
    CHOOSE r \in {Norm(x[1] * y[1], x[2] * y[2]) : x \in {x0}, y \in {y0}} :
        TRUE

FRecip(x) ==
    IF IsNaN(x) THEN NaN
    ELSE IF x[2] = 0 THEN Zero
    ELSE IF x[1] = 0 THEN PInf
    ELSE Norm(x[2], x[1])

FDiv(x, y) == FMul(x, FRecip(y))

\* x < y on f32: false when either side is NaN
FLess(x, y) ==
    /\ ~IsNaN(x)
    /\ ~IsNaN(y)
    /\ x # y
    /\ IF x[2] = 0 THEN x = NInf
       ELSE IF y[2] = 0 THEN y = PInf
       ELSE x[1] * y[2] < y[1] * x[2]

RECURSIVE Powi(_, _)
Powi(x, e) ==
    IF e = 0 THEN One
    ELSE IF e < 0 THEN FRecip(Powi(x, -e))
    ELSE FMul(x, Powi(x, e - 1))

-----------------------------------------------------------------------------
(* Mixer for f32 and the blends Mixable derives from it *)

MixerNew == Zero

\* an add that forgets the weight
MixerAddUnweighted(acc, v, weight) == FAdd(acc, v)

MixerAdd(acc, v, weight) == FAdd(acc, FMul(v, weight))

MixerClose(acc) == acc

\* a linear blend with its two weights exchanged
linearSwapped(a, b, t) ==
    MixerClose(MixerAdd(MixerAdd(MixerNew, a, t), b, FSub(One, t)))

linear(a, b, t) ==
    MixerClose(MixerAdd(MixerAdd(MixerNew, a, FSub(One, t)), b, t))

quadratic(a, b, c, t) ==
    LET s == FSub(One, t)
    IN  MixerClose(
            MixerAdd(
                MixerAdd(
                    MixerAdd(MixerNew, a, FMul(s, s)),
                    b, FMul(FMul(Two, s), t)),
                c, FMul(t, t)))

cubic(a, b, c, d, t) ==
    LET s == FSub(One, t)
    IN  MixerClose(
            MixerAdd(
                MixerAdd(
                    MixerAdd(
                        MixerAdd(MixerNew, a, FMul(FMul(s, s), s)),
                        b, FMul(FMul(FMul(Three, s), s), t)),
                    c, FMul(FMul(FMul(Three, s), t), t)),
                d, FMul(FMul(t, t), t)))

\* the adds of a quadratic blend whose middle weight lacks the factor 2
quadraticAddsNoTwo(a, b, c, t) ==
    LET s == FSub(One, t)
    IN  <<<<a, FMul(s, s)>>, <<b, FMul(s, t)>>, <<c, FMul(t, t)>>>>

\* the (value, weight) pairs Mixable::quadratic adds to its mixer, in order
quadraticAdds(a, b, c, t) ==
    LET s == FSub(One, t)
    IN  <<<<a, FMul(s, s)>>, <<b, FMul(FMul(Two, s), t)>>, <<c, FMul(t, t)>>>>

RECURSIVE MixFold(_, _, _)
MixFold(acc, pairs, i) ==
    IF i > Len(pairs) THEN acc
    ELSE MixFold(MixerAdd(acc, pairs[i][1], pairs[i][2]), pairs, i + 1)

mix(pairs) == MixerClose(MixFold(MixerNew, pairs, 1))

-----------------------------------------------------------------------------
(* Animate<f32> and AnimateSequence<f32> as records *)

\* AnimateSequence::new(end): an empty queue and the value held after it
SeqNew(end) == [queue |-> <<>>, end |-> end]

\* every Animate is a record of one shape; a variant reads only its own fields
Blank ==
    [k |-> "Fixed", a |-> Zero, b |-> Zero, c |-> Zero, d |-> Zero, e |-> 0,
     s |-> 0, t |-> 0, f |-> "none", fd |-> 0, seq |-> SeqNew(Zero)]

Fixed(a) == [Blank EXCEPT !.k = "Fixed", !.a = a]

Slide(a, b, t) == [Blank EXCEPT !.k = "Slide", !.a = a, !.b = b, !.t = t]

Linear(a, b, s, t) ==
    [Blank EXCEPT !.k = "Linear", !.a = a, !.b = b, !.s = s, !.t = t]

Quadratic(a, b, c, s, t) ==
    [Blank EXCEPT !.k = "Quadratic", !.a = a, !.b = b, !.c = c, !.s = s, !.t = t]

Cubic(a, b, c, d, s, t) ==
    [Blank EXCEPT !.k = "Cubic", !.a = a, !.b = b, !.c = c, !.d = d,
                  !.s = s, !.t = t]

BoundedLinear(a, b, s, t) ==
    [Blank EXCEPT !.k = "BoundedLinear", !.a = a, !.b = b, !.s = s, !.t = t]

BoundedQuadratic(a, b, c, s, t) ==
    [Blank EXCEPT !.k = "BoundedQuadratic", !.a = a, !.b = b, !.c = c,
                  !.s = s, !.t = t]

BoundedCubic(a, b, c, d, s, t) ==
    [Blank EXCEPT !.k = "BoundedCubic", !.a = a, !.b = b, !.c = c, !.d = d,
                  !.s = s, !.t = t]

Switch(a, b, t) == [Blank EXCEPT !.k = "Switch", !.a = a, !.b = b, !.t = t]

SmoothSwitch(a, b, s, t) ==
    [Blank EXCEPT !.k = "SmoothSwitch", !.a = a, !.b = b, !.s = s, !.t = t]

SoftSwitch(a, b, e, s, t) ==
    [Blank EXCEPT !.k = "SoftSwitch", !.a = a, !.b = b, !.e = e, !.s = s, !.t = t]

\* f names the shared closure, fd the duration it captured (bounce_* only)
Func(f, t) == [Blank EXCEPT !.k = "Func", !.f = f, !.t = t]

MixFunc(f, fd, a, b, t) ==
    [Blank EXCEPT !.k = "MixFunc", !.f = f, !.fd = fd, !.a = a, !.b = b, !.t = t]

StepFunc(f, v) == [Blank EXCEPT !.k = "StepFunc", !.f = f, !.a = v]

Sequence(seq) == [Blank EXCEPT !.k = "Sequence", !.seq = seq]

\* the closure of bounce_soft(a, b, duration), applied to the time t
BounceSoftFn(duration, t) ==
    LET u == FDiv(R(t), R(duration))
        x == FSub(FMul(u, Two), One)
        xx == FMul(x, x)
    IN  IF FLess(u, Zero) \/ FLess(One, u) THEN Zero
        ELSE FAdd(FSub(FMul(xx, xx), FMul(Two, xx)), One)

\* the closure of bounce_hard(a, b, duration), applied to the time t
BounceHardFn(duration, t) ==
    LET u == FDiv(R(t), R(duration))
        x == FSub(FMul(u, Two), One)
    IN  IF FLess(u, Zero) \/ FLess(One, u) THEN Zero
        ELSE FSub(One, FMul(x, x))

bounce_soft(a, b, duration) == MixFunc("bounce_soft", duration, a, b, 0)

bounce_hard(a, b, duration) == MixFunc("bounce_hard", duration, a, b, 0)

\* Func's closure Fn(Time) -> V; "ramp" is a host closure, f(t) = t
CallFunc(x) == R(x.t)

\* a bounce closure that is not clipped outside [0, duration]
CallMixFuncUnclipped(x) ==
    LET u == FSub(FMul(FDiv(R(x.t), R(x.fd)), Two), One)
    IN  FSub(One, FMul(u, u))

\* MixFunc's closure Fn(Time) -> Time
CallMixFunc(x) ==
    IF x.f = "bounce_soft" THEN BounceSoftFn(x.fd, x.t)
    ELSE BounceHardFn(x.fd, x.t)

\* StepFunc's closure Fn(V, DeltaTime) -> V; two host closures:
\* "integrate" is f(v, dt) = v + dt, "count" is f(v, dt) = v + 1
CallStepFunc(f, v, dt) ==
    IF f = "integrate" THEN FAdd(v, R(dt)) ELSE FAdd(v, One)

-----------------------------------------------------------------------------
(* Animate::do_step / Animate::step and AnimateSequence::step *)

RECURSIVE DoStep(_, _)
RECURSIVE SeqWalk(_, _, _)

\* a variant that already ends when the step reaches the end time exactly
ExpiredAtEnd(dt, t) == dt >= t

\* a test that lets a step run one tick past the end time
ExpiredOneLate(dt, t) == dt > t + 1

\* the test `dt > t` of every variant that ends: the step passes the end time
Expired(dt, t) == dt > t

\* a walk that already drops an entry the residual reaches exactly
ExhaustedAtEnd(dt, t) == dt >= t

\* a walk that never takes an entry to have run out
ExhaustedNever(dt, t) == FALSE

\* the test `dt > *t` of the sequence walk: the residual passes the entry
Exhausted(dt, t) == dt > t

\* the loop of AnimateSequence::step from entry i on, with the residual dt:
\* the queue after the walk and the number of entries to drain
SeqWalk(queue, i, dt) ==
    IF i > Len(queue) THEN [queue |-> queue, count |-> i - 1]
    ELSE IF Exhausted(dt, queue[i][2])
         THEN SeqWalk(queue, i + 1, dt - queue[i][2])
         ELSE [queue |-> [queue EXCEPT ![i] =
                              <<DoStep(queue[i][1], dt), queue[i][2] - dt>>],
               count |-> i - 1]

\* a step that walks the queue and forgets to drain the entries it counted
SeqStepNoDrain(seq, dt) ==
    [seq EXCEPT !.queue = SeqWalk(seq.queue, 1, dt).queue]

SeqStep(seq, dt) ==
    LET w == SeqWalk(seq.queue, 1, dt)
    IN  [seq EXCEPT !.queue = SubSeq(w.queue, w.count + 1, Len(w.queue))]

\* a Slide step that counts the time down and forgets to move the value
SlideStepNoBlend(x, dt) ==
    IF Expired(dt, x.t) THEN Fixed(x.b) ELSE Slide(x.a, x.b, x.t - dt)

\* the Slide arm of do_step
SlideStep(x, dt) ==
    IF Expired(dt, x.t) THEN Fixed(x.b)
    ELSE Slide(linear(x.a, x.b, FDiv(R(dt), R(x.t))), x.b, x.t - dt)

DoStep(x, dt) ==
    CASE x.k = "Fixed" -> Fixed(x.a)
      [] x.k = "Slide" -> SlideStep(x, dt)
      [] x.k = "Linear" -> Linear(x.a, x.b, x.s - dt, x.t - dt)
      [] x.k = "Quadratic" -> Quadratic(x.a, x.b, x.c, x.s - dt, x.t - dt)
      [] x.k = "Cubic" -> Cubic(x.a, x.b, x.c, x.d, x.s - dt, x.t - dt)
      [] x.k = "BoundedLinear" ->
            IF Expired(dt, x.t) THEN Fixed(x.b)
            ELSE BoundedLinear(x.a, x.b, x.s - dt, x.t - dt)
      [] x.k = "BoundedQuadratic" ->
            IF Expired(dt, x.t) THEN Fixed(x.c)
            ELSE BoundedQuadratic(x.a, x.b, x.c, x.s - dt, x.t - dt)
      [] x.k = "BoundedCubic" ->
            IF Expired(dt, x.t) THEN Fixed(x.d)
            ELSE BoundedCubic(x.a, x.b, x.c, x.d, x.s - dt, x.t - dt)
      [] x.k = "Switch" ->
            IF Expired(dt, x.t) THEN Fixed(x.b) ELSE Switch(x.a, x.b, x.t - dt)
      [] x.k = "SmoothSwitch" ->
            IF Expired(dt, x.t) THEN Fixed(x.b)
            ELSE SmoothSwitch(x.a, x.b, x.s - dt, x.t - dt)
      [] x.k = "SoftSwitch" ->
            IF Expired(dt, x.t) THEN Fixed(x.b)
            ELSE SoftSwitch(x.a, x.b, x.e, x.s - dt, x.t - dt)
      [] x.k = "Func" -> Func(x.f, x.t + dt)
      [] x.k = "MixFunc" -> MixFunc(x.f, x.fd, x.a, x.b, x.t + dt)
      [] x.k = "StepFunc" -> StepFunc(x.f, CallStepFunc(x.f, x.a, dt))
      [] x.k = "Sequence" -> Sequence(SeqStep(x.seq, dt))

\* a step that lets a held value drift with the time that passes
AnimateStepDrifts(x, dt) ==
    IF x.k = "Fixed" THEN Fixed(FAdd(x.a, R(dt))) ELSE DoStep(x, dt)

\* a step that ends Linear, Quadratic and Cubic the way it ends the bounded
\* variants
AnimateStepEndsAll(x, dt) ==
    IF x.k \in {"Linear", "Quadratic", "Cubic"} /\ dt > x.t
    THEN Fixed(IF x.k = "Linear" THEN x.b ELSE IF x.k = "Quadratic" THEN x.c
               ELSE x.d)
    ELSE DoStep(x, dt)

\* a step that turns a Sequence that has played out into Fixed(end)
AnimateStepCollapses(x, dt) ==
    LET y == DoStep(x, dt)
    IN  IF y.k = "Sequence" /\ Len(y.seq.queue) = 0
        THEN Fixed(y.seq.end) ELSE y

\* Animate::step: the whole state is replaced by do_step's result
AnimateStep(x, dt) == DoStep(x, dt)

-----------------------------------------------------------------------------
(* now() and steady() *)

\* a blend parameter measured back from the end of the window
ParamFromEnd(x) == FDiv(R(x.t), R(x.t - x.s))

\* the blend parameter s / (s - t) of the windowed variants
Param(x) == FDiv(R(x.s), R(x.s - x.t))

\* a window that is taken to open one tick before its start time
NotOpenYetEarly(s) == s > 1

\* the test `s > 0.` of the windowed variants: the window has not opened
NotOpenYet(s) == s > 0

RECURSIVE AnimateNow(_)

SeqNow(seq) ==
    IF Len(seq.queue) > 0 THEN AnimateNow(seq.queue[1][1]) ELSE seq.end

AnimateNow(x) ==
    CASE x.k = "Fixed" -> x.a
      [] x.k = "Slide" -> x.a
      [] x.k = "Linear" -> linear(x.a, x.b, Param(x))
      [] x.k = "Quadratic" -> quadratic(x.a, x.b, x.c, Param(x))
      [] x.k = "Cubic" -> cubic(x.a, x.b, x.c, x.d, Param(x))
      [] x.k = "BoundedLinear" ->
            IF NotOpenYet(x.s) THEN x.a ELSE linear(x.a, x.b, Param(x))
      [] x.k = "BoundedQuadratic" ->
            IF NotOpenYet(x.s) THEN x.a ELSE quadratic(x.a, x.b, x.c, Param(x))
      [] x.k = "BoundedCubic" ->
            IF NotOpenYet(x.s) THEN x.a ELSE cubic(x.a, x.b, x.c, x.d, Param(x))
      [] x.k = "Switch" -> x.a
      [] x.k = "SmoothSwitch" ->
            IF NotOpenYet(x.s) THEN x.a
            ELSE LET p == Param(x)
                     pp == FMul(p, p)
                 IN  linear(x.a, x.b,
                            FSub(FMul(Three, pp), FMul(FMul(Two, pp), p)))
      [] x.k = "SoftSwitch" ->
            IF NotOpenYet(x.s) THEN x.a
            ELSE linear(x.a, x.b, Powi(FSub(One, Param(x)), x.e))
      [] x.k = "Func" -> CallFunc(x)
      [] x.k = "MixFunc" -> linear(x.a, x.b, CallMixFunc(x))
      [] x.k = "StepFunc" -> x.a
      [] x.k = "Sequence" -> SeqNow(x.seq)

AnimateSteady(x) == x.k = "Fixed"

\* a steady() that asks the entry that is playing instead of the last one
SeqSteadyOfHead(seq) ==
    IF Len(seq.queue) > 0 THEN seq.queue[1][1].k = "Fixed" ELSE TRUE

SeqSteady(seq) ==
    IF Len(seq.queue) > 0
    THEN AnimateSteady(seq.queue[Len(seq.queue)][1])
    ELSE TRUE

\* a before() that queues the entry behind the others
SeqBeforeAtBack(seq, time, anim) ==
    [seq EXCEPT !.queue = seq.queue \o <<<<anim, time>>>>]

\* AnimateSequence::before: push (anim, time) at the front of the queue
SeqBefore(seq, time, anim) ==
    [seq EXCEPT !.queue = <<<<anim, time>>>> \o seq.queue]

-----------------------------------------------------------------------------
(* The Animation trait, dispatched on the implementer *)

Now(i, x) == IF i = "Animate" THEN AnimateNow(x) ELSE SeqNow(x)

Step(i, x, dt) == IF i = "Animate" THEN AnimateStep(x, dt) ELSE SeqStep(x, dt)

Steady(i, x) == IF i = "Animate" THEN AnimateSteady(x) ELSE SeqSteady(x)

\* a normalize that steps by one tick instead of by zero
NormalizeOneTick(i, x) == Step(i, x, 1)

\* Animation::normalize: step(0.) and return self
Normalize(i, x) == Step(i, x, 0)

-----------------------------------------------------------------------------
(* The host: what it constructs and the calls it makes *)

Vals == {Zero, One}

Times == -1 .. MaxTime

Dts == 0 .. MaxDt

Exps == {1, 2}

\* the curves the host constructs (every variant but Sequence)
Curves ==
    {Fixed(a) : a \in Vals}
    \cup {Slide(a, b, t) : a \in Vals, b \in Vals, t \in Times}
    \cup {Switch(a, b, t) : a \in Vals, b \in Vals, t \in Times}
    \cup UNION {{Linear(a, b, s, t), BoundedLinear(a, b, s, t),
                 SmoothSwitch(a, b, s, t)} :
                a \in Vals, b \in Vals, s \in Times, t \in Times}
    \cup {SoftSwitch(a, b, e, s, t) :
                a \in Vals, b \in Vals, e \in Exps, s \in Times, t \in Times}
    \cup UNION {{Quadratic(a, b, c, s, t), BoundedQuadratic(a, b, c, s, t)} :
                a \in Vals, b \in Vals, c \in Vals, s \in Times, t \in Times}
    \cup UNION {{Cubic(a, b, c, Two, s, t), BoundedCubic(a, b, c, Two, s, t)} :
                a \in Vals, b \in Vals, c \in Vals, s \in Times, t \in Times}
    \cup {Func("ramp", t) : t \in Times}
    \cup UNION {{bounce_soft(a, b, du), bounce_hard(a, b, du)} :
                a \in Vals, b \in Vals, du \in 1 .. MaxTime}
    \cup {StepFunc(f, v) : f \in {"integrate", "count"}, v \in Vals}

\* the (animation, duration) entries the host queues with before()
Entries ==
    {<<Slide(Zero, One, 2), 2>>, <<Slide(One, Two, 2), 2>>,
     <<Switch(Zero, One, 1), 2>>, <<Fixed(One), 1>>,
     <<StepFunc("count", Zero), 1>>}

\* the value AnimateSequence::new is given
Ends == {Three}

-----------------------------------------------------------------------------
(* The pointer arbitration of interact.rs.  A ray hit is abstracted to its
   time of impact, a whole number; an Option is a sequence
   of length 0 (None) or 1 (Some).  An Anywhere is a shared cell, so a reply
   is the index of its cell in the sequence of the cells made so far. *)

\* Anywhere::new(): the cell holds nothing yet
CellEmpty == [full |-> FALSE, some |-> FALSE, toi |-> 0]

\* Anywhere::with(None), or put(None): the cell holds "no hit"
CellNone == [full |-> TRUE, some |-> FALSE, toi |-> 0]

\* put(Some(hit)): the cell holds the hit
CellHit(t) == [full |-> TRUE, some |-> TRUE, toi |-> t]

\* Anywhere::put: the cell's content is replaced
AnywherePut(cs, r, v) == [cs EXCEPT ![r] = v]

\* put(v) on the reply of every query of qs, one after the other
RECURSIVE PutAll(_, _, _)
PutAll(cs, qs, v) ==
    IF qs = {} THEN cs
    ELSE LET q == CHOOSE x \in qs : TRUE
         IN PutAll(AnywherePut(cs, q.reply, v), qs \ {q}, v)

\* Anywhere::take: what is left in the cell
AnywhereTake(cs, r) == AnywherePut(cs, r, CellEmpty)

\* ControllerGuru as VrGuru::new builds it; the heap of queries is the set
\* of its elements
GuruNew == [blocked |-> FALSE, queries |-> {}, laser_toi |-> <<>>]

\* ControllerGuru::laser.  The match is on the tuple (toi, self.laser_toi),
\* which holds a copy of the field: `*o = t` and `*l = Some(t)` write to the
\* copy, and the guru is left as it was.
Laser(g, hit) == g

\* ControllerGuru::pointing: the guru and the cells after the call; the
\* reply returned is the last cell
Pointing(g, cs, hit, stops) ==
    IF ~g.blocked /\ hit # <<>>
    THEN [guru |-> [g EXCEPT !.queries =
                        @ \cup {[hit |-> hit[1], reply |-> Len(cs) + 1,
                                 stop |-> stops]}],
          cells |-> Append(cs, CellEmpty)]
    ELSE [guru |-> g, cells |-> Append(cs, CellNone)]

\* block_pointing that forgets the queries instead of answering them
BlockPointingSilent(g, cs) ==
    [guru |-> [g EXCEPT !.blocked = TRUE, !.queries = {}], cells |-> cs]

\* ControllerGuru::block_pointing
BlockPointing(g, cs) ==
    [guru |-> [g EXCEPT !.blocked = TRUE, !.queries = {}],
     cells |-> PutAll(cs, g.queries, CellNone)]

\* BinaryHeap::pop on the heap of qs: a greatest element by Ord, which
\* compares hit.toi; among equal ones the heap's layout decides
Pops(qs) == {q \in qs : \A x \in qs : x.hit <= q.hit}

\* ControllerGuru::apply: the cells it can leave.  It pops and answers
\* Some(hit) until the heap is empty or the popped query stops, then
\* answers None to what is left.
RECURSIVE Apply(_, _)
Apply(qs, cs) ==
    IF qs = {} THEN {cs}
    ELSE UNION {LET c1 == AnywherePut(cs, q.reply, CellHit(q.hit))
                IN IF q.stop
                   THEN {PutAll(c1, qs \ {q}, CellNone)}
                   ELSE Apply(qs \ {q}, c1) : q \in Pops(qs)}

\* the times of impact of the shapes the ray can hit: a nearer and a farther
Tois == {1, 2}

\* what a ray can do on a shape: miss it, or hit it at one of these times
Hits == {<<>>} \cup {<<t>> : t \in Tois}

\* no guru has been built and no frame drawn
NoPointing ==
    /\ guru = GuruNew
    /\ cells = <<>>
    /\ partials = <<>>
    /\ applied = FALSE
    /\ cubes = <<>>
    /\ ctl = [trigger |-> 0, trigger_delta |-> 0]
    /\ hits = <<>>
    /\ panicked = FALSE

\* no blend call is in progress on its own
NoMixCall ==
    /\ mixcall = [fn |-> "none", ctl |-> <<>>, t |-> Zero, pairs |-> <<>>]
    /\ mixer = MixerNew
    /\ added = 0
    /\ closed = FALSE
    /\ out = Zero

Init ==
    /\ \/ impl = "Animate" /\ obj \in Curves
       \/ impl = "AnimateSequence" /\ obj \in {SeqNew(v) : v \in Ends}
    /\ start = obj
    /\ elapsed = 0
    /\ nsteps = 0
    /\ NoMixCall
    /\ NoPointing

\* the host queues one more entry in front, while it builds the sequence
\* or while the sequence plays
Before ==
    /\ impl = "AnimateSequence"
    /\ Len(obj.queue) < MaxQueue
    /\ \E en \in Entries : obj' = SeqBefore(obj, en[2], en[1])
    /\ start' = obj'
    /\ elapsed' = 0
    /\ UNCHANGED <<impl, nsteps>>
    /\ UNCHANGED mvars
    /\ UNCHANGED gvars

\* the host moves the sequence it built into an Animate::Sequence
Wrap ==
    /\ impl = "AnimateSequence"
    /\ nsteps = 0
    /\ impl' = "Animate"
    /\ obj' = Sequence(obj)
    /\ start' = obj'
    /\ UNCHANGED <<elapsed, nsteps>>
    /\ UNCHANGED mvars
    /\ UNCHANGED gvars

\* one frame: the host calls step(dt) with the time that has passed
StepCall ==
    /\ nsteps < MaxSteps
    /\ \E dt \in Dts :
          /\ obj' = Step(impl, obj, dt)
          /\ elapsed' = elapsed + dt
    /\ nsteps' = nsteps + 1
    /\ UNCHANGED <<impl, start>>
    /\ UNCHANGED mvars
    /\ UNCHANGED gvars

\* the host calls normalize() and keeps the result
NormalizeCall ==
    /\ nsteps < MaxSteps
    /\ obj' = Normalize(impl, obj)
    /\ nsteps' = nsteps + 1
    /\ UNCHANGED <<impl, start, elapsed>>
    /\ UNCHANGED mvars
    /\ UNCHANGED gvars

Next == Before \/ Wrap \/ StepCall \/ NormalizeCall

Spec == Init /\ [][Next]_vars

-----------------------------------------------------------------------------
(* A blend call on its own: Mixer::new, one add per pair, close *)

MixVals == {Zero, One, Three, R(7)}

MixParams == {Zero, <<1, 2>>, One}

MixWeights == {<<1, 4>>, <<3, 4>>, One}

\* the (value, weight) items a caller of Mixable::mix passes
MixItems == {<<v, w>> : v \in {Three, R(7)}, w \in MixWeights}

\* the calls: quadratic(a, b, c, t), and mix(iter) over up to MaxPairs items
MixCalls ==
    {[fn |-> "quadratic", ctl |-> <<a, b, c>>, t |-> t,
      pairs |-> quadraticAdds(a, b, c, t)] :
        a \in MixVals, b \in MixVals, c \in MixVals, t \in MixParams}
    \cup {[fn |-> "mix", ctl |-> <<>>, t |-> Zero, pairs |-> p] :
             p \in UNION {[1 .. n -> MixItems] : n \in 0 .. MaxPairs}}

\* no animation is involved in a blend call on its own
NoAnimation ==
    /\ impl = "none"
    /\ obj = Blank
    /\ start = Blank
    /\ elapsed = 0
    /\ nsteps = 0

\* the call has made its mixer: `let mut acc = Self::Mixer::new()`
MixInit ==
    /\ NoAnimation
    /\ mixcall \in MixCalls
    /\ mixer = MixerNew
    /\ added = 0
    /\ closed = FALSE
    /\ out = Zero
    /\ NoPointing

\* the next `acc.add(v, w)`
MixerAddCall ==
    /\ ~closed
    /\ added < Len(mixcall.pairs)
    /\ mixer' = MixerAdd(mixer, mixcall.pairs[added + 1][1],
                          mixcall.pairs[added + 1][2])
    /\ added' = added + 1
    /\ UNCHANGED <<mixcall, closed, out>>
    /\ UNCHANGED avars
    /\ UNCHANGED gvars

\* `acc.close()`, once every pair has been added
MixerCloseCall ==
    /\ ~closed
    /\ added = Len(mixcall.pairs)
    /\ closed' = TRUE
    /\ out' = MixerClose(mixer)
    /\ UNCHANGED <<mixcall, mixer, added>>
    /\ UNCHANGED avars
    /\ UNCHANGED gvars

MixNext == MixerAddCall \/ MixerCloseCall

MixSpec == MixInit /\ [][MixNext]_vars

-----------------------------------------------------------------------------
(* A sequence that is played: built once, then stepped every frame *)

\* the queues the host builds with up to MaxQueue calls of before()
PlayQueues == UNION {[1 .. n -> Entries] : n \in 0 .. MaxQueue}

\* the frames the host plays: enough for the longest queue of the model
\* (no entry lasts more than two ticks) to run out, and MaxSteps more
MaxFrames == 2 * MaxQueue + MaxSteps

PlayInit ==
    /\ impl = "AnimateSequence"
    /\ obj \in {[queue |-> q, end |-> v] : q \in PlayQueues, v \in Ends}
    /\ start = obj
    /\ elapsed = 0
    /\ nsteps = 0
    /\ NoMixCall
    /\ NoPointing

\* one frame: step(dt) with the time that has passed, at least one tick
PlayStep ==
    /\ nsteps < MaxFrames
    /\ \E dt \in 1 .. MaxDt :
          /\ obj' = Step(impl, obj, dt)
          /\ elapsed' = elapsed + dt
    /\ nsteps' = nsteps + 1
    /\ UNCHANGED <<impl, start>>
    /\ UNCHANGED mvars
    /\ UNCHANGED gvars

PlayNext == PlayStep

\* the host's frame loop calls step every frame
PlaySpec == PlayInit /\ [][PlayNext]_vars /\ WF_vars(PlayStep)

-----------------------------------------------------------------------------
(* The guru of one frame, called by a host in any order: pointing() and
   block_pointing() until apply() consumes it, then each reply is read once *)

\* VrGuru::new
GuruInit ==
    /\ NoAnimation
    /\ NoMixCall
    /\ NoPointing

\* pointing(pos, shape, stops): the ray hits the shape or not
PointingCall ==
    /\ ~applied
    /\ Len(partials) < MaxQueries
    /\ \E hit \in Hits, stops \in BOOLEAN :
          LET r == Pointing(guru, cells, hit, stops)
          IN /\ guru' = r.guru
             /\ cells' = r.cells
             /\ partials' = Append(partials, Len(r.cells))
             /\ hits' = Append(hits, [hit |-> hit, stops |-> stops])
    /\ UNCHANGED <<applied, cubes, ctl, panicked>>
    /\ UNCHANGED avars
    /\ UNCHANGED mvars

\* block_pointing()
BlockPointingCall ==
    /\ ~applied
    /\ LET r == BlockPointing(guru, cells)
       IN /\ guru' = r.guru
          /\ cells' = r.cells
    /\ UNCHANGED <<partials, applied, cubes, ctl, hits, panicked>>
    /\ UNCHANGED avars
    /\ UNCHANGED mvars

\* VrGuru::apply(self); the secondary guru has no queries
ApplyCall ==
    /\ ~applied
    /\ cells' \in Apply(guru.queries, cells)
    /\ guru' = [guru EXCEPT !.queries = {}]
    /\ applied' = TRUE
    /\ UNCHANGED <<partials, cubes, ctl, hits, panicked>>
    /\ UNCHANGED avars
    /\ UNCHANGED mvars

\* reply.expect(msg) on the oldest reply not read yet: take().expect(msg)
ExpectCall ==
    /\ applied
    /\ ~panicked
    /\ partials # <<>>
    /\ panicked' = ~cells[Head(partials)].full
    /\ cells' = AnywhereTake(cells, Head(partials))
    /\ partials' = Tail(partials)
    /\ UNCHANGED <<guru, applied, cubes, ctl, hits>>
    /\ UNCHANGED avars
    /\ UNCHANGED mvars

GuruNext ==
    \/ PointingCall
    \/ BlockPointingCall
    \/ ApplyCall
    \/ ExpectCall

GuruSpec == GuruInit /\ [][GuruNext]_vars

-----------------------------------------------------------------------------
(* The frames of App::draw, as far as the cubes' grabs go.  The trigger is
   in tenths.  What the ray hits depends on the poses of the controller and
   of the cubes, which the model leaves open: any cube may be hit or missed
   in any frame.  trigger_delta is computed outside of this repository: it
   is the difference of the trigger to any of the trigger's values. *)

\* the 0.5 the trigger is compared with, in tenths
TriggerHalf == 5

Triggers == {4, 5, 6}

\* the closure of the cubes' loop without its call of block_pointing
VisitCubeUnblocked(st, i, trigger, hit) ==
    LET held == st.cubes[i] /\ trigger > TriggerHalf
        cb == IF held THEN st.cubes ELSE [st.cubes EXCEPT ![i] = FALSE]
        p == Pointing(Laser(st.guru, hit), st.cells, hit, TRUE)
    IN [guru |-> p.guru, cells |-> p.cells, cubes |-> cb]

\* the closure of the cubes' loop, for cube i: block or let go, laser,
\* pointing; the reply of cube i is cell i
VisitCube(st, i, trigger, hit) ==
    LET held == st.cubes[i] /\ trigger > TriggerHalf
        b == IF held THEN BlockPointing(st.guru, st.cells)
             ELSE [guru |-> st.guru, cells |-> st.cells]
        cb == IF held THEN st.cubes ELSE [st.cubes EXCEPT ![i] = FALSE]
        p == Pointing(Laser(b.guru, hit), b.cells, hit, TRUE)
    IN [guru |-> p.guru, cells |-> p.cells, cubes |-> cb]

\* the cubes' loop from cube i on
RECURSIVE Visits(_, _, _, _)
Visits(st, i, trigger, h) ==
    IF i > Len(st.cubes) THEN st
    ELSE Visits(VisitCube(st, i, trigger, h[i]), i + 1, trigger, h)

\* CubePartial::finish on a cube's grab: expect, then the grab on the
\* trigger's rise
Finish(grabbed, cell, c) ==
    IF ~cell.full THEN [grabbed |-> grabbed, panicked |-> TRUE]
    ELSE [grabbed |-> \/ grabbed
                      \/ /\ cell.some
                         /\ c.trigger > TriggerHalf
                         /\ c.trigger - c.trigger_delta < TriggerHalf,
          panicked |-> FALSE]

\* App::new: no cube is grabbed
DrawInit ==
    /\ NoAnimation
    /\ NoMixCall
    /\ guru = GuruNew
    /\ cells = <<>>
    /\ partials = <<>>
    /\ applied = FALSE
    /\ cubes = [i \in 1 .. NumCubes |-> FALSE]
    /\ ctl = [trigger |-> 0, trigger_delta |-> 0]
    /\ hits = <<>>
    /\ panicked = FALSE

\* App::draw, one frame: the controller's update, the cubes' loop, the
\* laser on the stage, apply, finish of every cube.  cells is kept as
\* apply() left it, guru as it was consumed.
Draw ==
    /\ ~panicked
    /\ \E t \in Triggers, p \in Triggers, h \in [1 .. NumCubes -> Hits] :
          \E d \in {t - p} :
          \E v \in {Visits([guru |-> GuruNew, cells |-> <<>>, cubes |-> cubes],
                           1, t, h)} :
          \E g \in {Laser(v.guru, floor) : floor \in Hits} :
          \E cs \in Apply(g.queries, v.cells) :
          \E f \in {[i \in 1 .. NumCubes |->
                       Finish(v.cubes[i], cs[i],
                              [trigger |-> t, trigger_delta |-> d])]} :
             /\ ctl' = [trigger |-> t, trigger_delta |-> d]
             /\ hits' = [i \in 1 .. NumCubes |-> [hit |-> h[i], stops |-> TRUE]]
             /\ guru' = [g EXCEPT !.queries = {}]
             /\ cells' = cs
             /\ partials' = [i \in 1 .. NumCubes |-> i]
             /\ applied' = TRUE
             /\ cubes' = [i \in 1 .. NumCubes |-> f[i].grabbed]
             /\ panicked' = \E i \in 1 .. NumCubes : f[i].panicked
    /\ UNCHANGED avars
    /\ UNCHANGED mvars

DrawNext == Draw

DrawSpec == DrawInit /\ [][DrawNext]_vars

-----------------------------------------------------------------------------
(* Vocabulary of the properties *)

\* the variants whose field t counts down to a transition into Fixed
Timed ==
    {"Slide", "BoundedLinear", "BoundedQuadratic", "BoundedCubic", "Switch",
     "SmoothSwitch", "SoftSwitch"}

\* the value a Timed variant holds once it has ended
EndValue(x) ==
    IF x.k = "BoundedQuadratic" THEN x.c
    ELSE IF x.k = "BoundedCubic" THEN x.d
    ELSE x.b

\* the instance is a timed sequence (on its own or inside Animate::Sequence)
IsSeqObj == impl = "AnimateSequence" \/ obj.k = "Sequence"

TheSeq == IF impl = "AnimateSequence" THEN obj ELSE obj.seq

\* this transition is a call of step (normalize is step(0)) ...
StepTaken == nsteps' = nsteps + 1

\* ... and this is its dt
LastDt == elapsed' - elapsed

\* this transition is a call of normalize (or of step(0), which is the same)
NormalizeTaken == StepTaken /\ LastDt = 0

\* the animation is a StepFunc, or a sequence that has one queued
RECURSIVE HasStepFunc(_)
HasStepFunc(x) ==
    \/ x.k = "StepFunc"
    \/ /\ x.k = "Sequence"
       /\ \E i \in 1 .. Len(x.seq.queue) : HasStepFunc(x.seq.queue[i][1])

\* the instance as an Animate (a sequence on its own is read as Sequence(seq))
AsAnimate(i, x) == IF i = "Animate" THEN x ELSE Sequence(x)

\* the remaining durations of the first k entries, added up
RECURSIVE SumDur(_, _)
SumDur(queue, k) == IF k = 0 THEN 0 ELSE SumDur(queue, k - 1) + queue[k][2]

\* entry i advanced by r (animation stepped, duration reduced), then the rest
AdvancedFrom(queue, i, r) ==
    <<<<DoStep(queue[i][1], r), queue[i][2] - r>>>>
        \o SubSeq(queue, i + 1, Len(queue))

-----------------------------------------------------------------------------
(* C1 *)

\* C1, as claimed: a step taken while steady() is true does not change
\* now() (the first step of "any further sequence of step calls").
\* AnimateSequence::steady looks at the tail entry only, so this fails.
C1_SteadyFreezesNow ==
    [][(StepTaken /\ Steady(impl, obj))
          => Now(impl', obj') = Now(impl, obj)]_vars

-----------------------------------------------------------------------------
(* C2 *)

\* the host built BoundedLinear(a, b, s, t) with 0 < s <= t and has stepped
\* it by exactly t in all
C2_SteppedExactlyT ==
    /\ impl = "Animate"
    /\ start.k = "BoundedLinear"
    /\ 0 < start.s
    /\ start.s <= start.t
    /\ nsteps > 0
    /\ elapsed = start.t

\* C2, as claimed: BoundedLinear(a, b, s, t) with 0 < s <= t, stepped by
\* dt's that sum to exactly t, is Fixed(b) and steady.  The code tests
\* `dt > t`, so the state is still BoundedLinear(a, b, s - t, 0); with
\* s = t its now() is 0/0 = NaN.
C2_FixedAtExactlyT ==
    C2_SteppedExactlyT => (obj = Fixed(start.b) /\ Steady(impl, obj))

-----------------------------------------------------------------------------
(* C3 *)

\* C3: when dt exceeds the durations of the first k >= 1 entries together
\* and the residual r = dt - (d1 + ... + dk) is less than the duration of
\* entry k+1, one step call removes the first k entries, leaves entry k+1
\* at the head with its animation stepped by r and its duration reduced by
\* r, and leaves the later entries and end as they were.
C3_StepCrossesEntries ==
    [][(StepTaken /\ IsSeqObj) =>
          \A k \in 1 .. (Len(TheSeq.queue) - 1) :
             LET q == TheSeq.queue
                 r == LastDt - SumDur(q, k)
             IN  (LastDt > SumDur(q, k) /\ r < q[k + 1][2]) =>
                    /\ TheSeq'.queue = AdvancedFrom(q, k + 1, r)
                    /\ TheSeq'.end = TheSeq.end]_vars

\* the documented example, in ticks of half a second:
\* [(Slide(0,1,1.0),1.0), (Slide(1,2,1.0),1.0)] stepped by 1.5 in one call
C3_Witness ==
    /\ impl = "AnimateSequence"
    /\ start.queue = <<<<Slide(Zero, One, 2), 2>>, <<Slide(One, Two, 2), 2>>>>
    /\ nsteps = 1
    /\ elapsed = 3
    /\ obj.queue = <<<<Slide(<<3, 2>>, Two, 1), 1>>>>
    /\ Now(impl, obj) = <<3, 2>>

-----------------------------------------------------------------------------
(* C4 *)

\* the residual dt with which the walk arrives at entry i
Residual(queue, i, dt) == dt - SumDur(queue, i - 1)

\* C4, as claimed: the walk passes every entry whose duration is <= the
\* residual; an entry it reaches is removed when its duration is <= the
\* residual (equal included) and is advanced and kept only when its
\* duration is greater.
C4_EqualIsConsumed ==
    [][(StepTaken /\ IsSeqObj) =>
          LET q == TheSeq.queue
              dt == LastDt
          IN  \A i \in 1 .. Len(q) :
                 (\A j \in 1 .. (i - 1) : q[j][2] <= Residual(q, j, dt)) =>
                    IF q[i][2] <= Residual(q, i, dt)
                    THEN Len(TheSeq'.queue) <= Len(q) - i
                    ELSE TheSeq'.queue = AdvancedFrom(q, i, Residual(q, i, dt))]_vars

\* C4, amended: the walk passes every entry whose duration is < the
\* residual; an entry it reaches is removed when its duration is strictly
\* less than the residual, and is advanced by the residual and kept (with
\* duration 0 when the two are equal) when its duration is >= the residual.
C4_EqualIsKept ==
    [][(StepTaken /\ IsSeqObj) =>
          LET q == TheSeq.queue
              dt == LastDt
          IN  \A i \in 1 .. Len(q) :
                 (\A j \in 1 .. (i - 1) : q[j][2] < Residual(q, j, dt)) =>
                    IF q[i][2] < Residual(q, i, dt)
                    THEN Len(TheSeq'.queue) <= Len(q) - i
                    ELSE TheSeq'.queue = AdvancedFrom(q, i, Residual(q, i, dt))]_vars

\* a step by exactly the head's duration has kept the head, with duration 0
C4_Witness ==
    /\ impl = "AnimateSequence"
    /\ start.queue = <<<<Slide(Zero, One, 2), 2>>, <<Fixed(One), 1>>>>
    /\ nsteps = 1
    /\ elapsed = 2
    /\ obj.queue = <<<<Slide(One, One, 0), 0>>, <<Fixed(One), 1>>>>

-----------------------------------------------------------------------------
(* C5 *)

\* C5, as claimed: for an animation that holds no StepFunc, step(d1) then
\* step(d2) gives the same now() and steady() as one step(d1 + d2).
\* A Slide stepped to t = 0 and then by 0 turns its value into NaN (0/0),
\* so this fails.
C5_StepsAdd ==
    ~HasStepFunc(AsAnimate(impl, obj)) =>
        \A d1 \in Dts, d2 \in Dts :
           LET two == Step(impl, Step(impl, obj, d1), d2)
               one == Step(impl, obj, d1 + d2)
           IN  /\ Now(impl, two) = Now(impl, one)
               /\ Steady(impl, two) = Steady(impl, one)

-----------------------------------------------------------------------------
(* C6 *)

RECURSIVE C6_ZeroStepChangesV(_)
C6_ZeroStepChangesV(x) ==
    \/ x.k = "StepFunc" /\ CallStepFunc(x.f, x.a, 0) # x.a
    \/ /\ x.k = "Sequence"
       /\ Len(x.seq.queue) > 0
       /\ C6_ZeroStepChangesV(x.seq.queue[1][1])

-----------------------------------------------------------------------------
(* C7 *)

\* C7, as claimed: normalize() of a Slide, Bounded*, Switch, SmoothSwitch
\* or SoftSwitch whose remaining time t is <= 0 gives Fixed(end value),
\* which is steady.  At t = 0 the test `dt > t` is false, the variant is
\* kept, and a Slide's value becomes NaN.
C7_NormalizeRepairsExpired ==
    [][(NormalizeTaken /\ impl = "Animate" /\ obj.k \in Timed /\ obj.t <= 0)
          => (obj' = Fixed(EndValue(obj)) /\ Steady(impl, obj'))]_vars

-----------------------------------------------------------------------------
(* C8 *)

Unbounded == {"Linear", "Quadratic", "Cubic"}

C8_ValidCurve(x) ==
    \/ x.k \in Timed \cup Unbounded /\ x.t > 0
    \/ x.k \in {"Func", "MixFunc"}

\* the same, for a Sequence: its head entry, if any, holds a Fixed or a
\* valid curve
C8_Valid(x) ==
    \/ C8_ValidCurve(x)
    \/ /\ x.k = "Sequence"
       /\ Len(x.seq.queue) > 0 =>
             \/ x.seq.queue[1][1].k = "Fixed"
             \/ C8_ValidCurve(x.seq.queue[1][1])

-----------------------------------------------------------------------------
(* C9 *)

\* C9: Animate::steady() is true exactly for Fixed.  A Slide, Bounded*,
\* Switch, SmoothSwitch or SoftSwitch built with t > 0 keeps its variant and
\* is not steady while the stepped time is at most t, and is Fixed(end
\* value) and steady once the stepped time exceeds t.
C9_SteadyIffFixed ==
    impl = "Animate" =>
        /\ Steady(impl, obj) <=> obj.k = "Fixed"
        /\ (start.k \in Timed /\ start.t > 0) =>
              /\ elapsed <= start.t =>
                    (obj.k = start.k /\ ~Steady(impl, obj))
              /\ elapsed > start.t =>
                    (obj = Fixed(EndValue(start)) /\ Steady(impl, obj))

C9_Witness ==
    /\ impl = "Animate"
    /\ start = BoundedQuadratic(Zero, One, Zero, 1, 2)
    /\ elapsed = 3
    /\ obj = Fixed(Zero)

-----------------------------------------------------------------------------
(* C10 *)

\* a + (b - a) * x, the linear blend written out
Blend(a, b, x) == FAdd(a, FMul(FSub(b, a), x))

\* C10: a step of Slide(a, b, T) with T > 0 by dt = T leaves now() = b; a
\* step by 0 < dt < T leaves a Slide whose now() is blend(a, b, dt/T) and
\* whose remaining time is T - dt.
C10_SlideStep ==
    [][(StepTaken /\ impl = "Animate" /\ obj.k = "Slide" /\ obj.t > 0) =>
          /\ LastDt = obj.t => Now(impl, obj') = obj.b
          /\ (0 < LastDt /\ LastDt < obj.t) =>
                /\ obj'.k = "Slide"
                /\ Now(impl, obj') =
                      Blend(obj.a, obj.b, FDiv(R(LastDt), R(obj.t)))
                /\ obj'.t = obj.t - LastDt
                /\ obj'.b = obj.b]_vars

C10_Witness ==
    /\ impl = "Animate"
    /\ start = Slide(Zero, One, 2)
    /\ nsteps = 1
    /\ elapsed = 1
    /\ obj = Slide(<<1, 2>>, One, 1)
    /\ Now(impl, obj) = <<1, 2>>

-----------------------------------------------------------------------------
(* C11 *)

\* C11: a step of Switch(a, b, t) by dt > t gives Fixed(b); a step by
\* dt <= t leaves Switch(a, b, t - dt), whose now() is a.
C11_SwitchStep ==
    [][(StepTaken /\ impl = "Animate" /\ obj.k = "Switch") =>
          /\ LastDt > obj.t => obj' = Fixed(obj.b)
          /\ LastDt <= obj.t =>
                /\ obj' = Switch(obj.a, obj.b, obj.t - LastDt)
                /\ Now(impl, obj') = obj.a]_vars

\* a Switch stepped by exactly its time is still a Switch that outputs a;
\* the next step, however small, passes the end and gives Fixed(b)
C11_Witness ==
    /\ impl = "Animate"
    /\ start = Switch(Zero, One, 2)
    /\ nsteps = 1
    /\ elapsed = 2
    /\ obj = Switch(Zero, One, 0)
    /\ Now(impl, obj) = Zero
    /\ Step(impl, obj, 1) = Fixed(One)

-----------------------------------------------------------------------------
(* C12 *)

\* C12: an Animate built as Fixed(v) is Fixed(v), with now() = v, before
\* and after any number of steps by any dt >= 0, and no step changes a
\* Fixed state.
C12_FixedAbsorbing ==
    (impl = "Animate" /\ start.k = "Fixed") =>
        /\ obj = start
        /\ Now(impl, obj) = start.a
        /\ \A dt \in Dts : Step(impl, obj, dt) = obj

\* Fixed(1) after three steps that add up to more than any time of the model
C12_Witness ==
    /\ impl = "Animate"
    /\ start = Fixed(One)
    /\ nsteps = MaxSteps
    /\ elapsed > MaxTime
    /\ obj = Fixed(One)

-----------------------------------------------------------------------------
(* C13 *)

\* the animations the properties put in the place of a queued one
C13_Heads == {en[1] : en \in Entries} \cup {Cubic(Zero, One, Zero, Two, 1, 2)}

\* C13: AnimateSequence::steady() is true exactly when the queue is empty
\* or the animation of its last entry reports steady(); with two or more
\* entries queued, no animation in the place of the head entry's changes
\* the answer.
C13_SteadyOfTail ==
    IsSeqObj =>
        LET q == TheSeq.queue
        IN  /\ SeqSteady(TheSeq) <=>
                  (Len(q) = 0 \/ AnimateSteady(q[Len(q)][1]))
            /\ Len(q) >= 2 =>
                  \A h \in C13_Heads :
                     SeqSteady([TheSeq EXCEPT !.queue[1][1] = h])
                        = SeqSteady(TheSeq)

\* a sequence that is playing a Slide and reports steady() because its last
\* entry is a Fixed
C13_Witness ==
    /\ impl = "AnimateSequence"
    /\ nsteps = 1
    /\ elapsed = 1
    /\ obj.queue = <<<<Slide(<<1, 2>>, One, 1), 1>>, <<Fixed(One), 1>>>>
    /\ Steady(impl, obj)
    /\ ~AnimateSteady(obj.queue[1][1])

-----------------------------------------------------------------------------
(* C14 *)

\* this transition is a call of before()
BeforeTaken ==
    /\ impl = "AnimateSequence"
    /\ impl' = "AnimateSequence"
    /\ nsteps' = nsteps
    /\ obj' # obj

\* C14: before(duration, curve) leaves a queue one entry longer, with
\* (curve, duration) as its first entry and every entry queued before
\* behind it, in the same order, with the same animation and remaining
\* duration; end is unchanged and now() is curve.now().
C14_BeforePushesFront ==
    [][BeforeTaken =>
          /\ Len(obj'.queue) = Len(obj.queue) + 1
          /\ SubSeq(obj'.queue, 2, Len(obj'.queue)) = obj.queue
          /\ obj'.end = obj.end
          /\ \E en \in Entries :
                /\ obj'.queue[1] = en
                /\ Now(impl', obj') = AnimateNow(en[1])]_vars

\* a sequence that has played half of its Slide gets a Switch queued in
\* front: now() is the Switch's 0, and the Slide keeps its value 1/2 and its
\* remaining duration
C14_Witness ==
    /\ impl = "AnimateSequence"
    /\ nsteps = 1
    /\ elapsed = 0
    /\ obj.queue = <<<<Switch(Zero, One, 1), 2>>,
                     <<Slide(<<1, 2>>, One, 1), 1>>>>
    /\ obj.end = Three
    /\ Now(impl, obj) = Zero

-----------------------------------------------------------------------------
(* C15 *)

Bounded == {"BoundedLinear", "BoundedQuadratic", "BoundedCubic"}

\* C15: a BoundedLinear, BoundedQuadratic or BoundedCubic whose remaining
\* start time s is > 0 outputs its first control point a (the a the host
\* gave it), whatever t and the other control points are.
C15_ClampedBeforeWindow ==
    (impl = "Animate" /\ obj.k \in Bounded /\ obj.s > 0) =>
        /\ Now(impl, obj) = obj.a
        /\ obj.a = start.a

\* a BoundedCubic one tick before its window opens, after one step; every
\* other control point differs from a
C15_Witness ==
    /\ impl = "Animate"
    /\ start = BoundedCubic(One, Zero, Zero, Two, 2, 2)
    /\ nsteps = 1
    /\ elapsed = 1
    /\ obj.k = "BoundedCubic"
    /\ obj.s = 1
    /\ Now(impl, obj) = One

-----------------------------------------------------------------------------
(* C16 *)

\* a (1-t)^2 + 2 b (1-t) t + c t^2, written out
Bezier2(a, b, c, t) ==
    LET s == FSub(One, t)
    IN  FAdd(FAdd(FMul(a, Powi(s, 2)), FMul(FMul(Two, b), FMul(s, t))),
             FMul(c, Powi(t, 2)))

\* C16: the quadratic blend of the scalars (a, b, c) is
\* a (1-t)^2 + 2 b (1-t) t + c t^2: a at t = 0, c at t = 1 and
\* a/4 + b/2 + c/4 at t = 1/2; it is also what Animate::now computes for a
\* Quadratic.
C16_QuadraticBlend ==
    (mixcall.fn = "quadratic" /\ closed) =>
        LET a == mixcall.ctl[1]
            b == mixcall.ctl[2]
            c == mixcall.ctl[3]
            t == mixcall.t
        IN  /\ added = 3
            /\ out = Bezier2(a, b, c, t)
            /\ t = Zero => out = a
            /\ t = One => out = c
            /\ t = <<1, 2>> =>
                  out = FAdd(FAdd(FMul(<<1, 4>>, a), FMul(<<1, 2>>, b)),
                             FMul(<<1, 4>>, c))
            /\ out = quadratic(a, b, c, t)

\* the blend of (1, 3, 7) at t = 1/2 is 1/4 + 3/2 + 7/4 = 7/2
C16_Witness ==
    /\ mixcall.fn = "quadratic"
    /\ mixcall.ctl = <<One, Three, R(7)>>
    /\ mixcall.t = <<1, 2>>
    /\ closed
    /\ out = <<7, 2>>

-----------------------------------------------------------------------------
(* C17 *)

\* v1 w1 + ... + vn wn over the first n pairs, written out
RECURSIVE WeightedSum(_, _)
WeightedSum(pairs, n) ==
    IF n = 0 THEN Zero
    ELSE FAdd(WeightedSum(pairs, n - 1), FMul(pairs[n][1], pairs[n][2]))

\* C17: Mixable::mix starts from a zero accumulator, adds every (value,
\* weight) pair once, in order, and returns the weighted sum of the values;
\* the weights are used as given, whether or not they sum to 1.
C17_MixIsWeightedSum ==
    mixcall.fn = "mix" =>
        /\ added <= Len(mixcall.pairs)
        /\ mixer = WeightedSum(mixcall.pairs, added)
        /\ closed =>
              /\ added = Len(mixcall.pairs)
              /\ out = WeightedSum(mixcall.pairs, Len(mixcall.pairs))
              /\ out = mix(mixcall.pairs)

\* the mix of (3.0, 0.25) and (7.0, 0.75) is 6.0
C17_Witness ==
    /\ mixcall.fn = "mix"
    /\ mixcall.pairs = <<<<Three, <<1, 4>>>>, <<R(7), <<3, 4>>>>>>
    /\ closed
    /\ out = R(6)

-----------------------------------------------------------------------------
(* C18 *)

\* C18: an Animate built as Linear, Quadratic, Cubic, Func, MixFunc or
\* StepFunc is the same variant and not steady after any steps.  Linear,
\* Quadratic and Cubic have s and t reduced by every dt, Func and MixFunc
\* have t increased by every dt, and a StepFunc has had f(v, dt) applied
\* once per step call (so v + the sum of the dt for f(v, dt) = v + dt, and
\* v + the number of calls for f(v, dt) = v + 1); nothing else changes.
C18_NeverEnds ==
    (impl = "Animate"
       /\ start.k \in Unbounded \cup {"Func", "MixFunc", "StepFunc"}) =>
        /\ obj.k = start.k
        /\ ~Steady(impl, obj)
        /\ start.k \in Unbounded =>
              obj = [start EXCEPT !.s = start.s - elapsed,
                                  !.t = start.t - elapsed]
        /\ start.k \in {"Func", "MixFunc"} =>
              obj = [start EXCEPT !.t = start.t + elapsed]
        /\ (start.k = "StepFunc" /\ start.f = "integrate") =>
              obj = [start EXCEPT !.a = FAdd(start.a, R(elapsed))]
        /\ (start.k = "StepFunc" /\ start.f = "count") =>
              obj = [start EXCEPT !.a = FAdd(start.a, R(nsteps))]

\* a Linear stepped past its end time t is still a Linear: it extrapolates
C18_Witness ==
    /\ impl = "Animate"
    /\ start = Linear(Zero, One, 1, 2)
    /\ elapsed = 3
    /\ obj = Linear(Zero, One, -2, -1)
    /\ Now(impl, obj) = Two

-----------------------------------------------------------------------------
(* C19 *)

\* the control points and parameters of y are those of x, but for the
\* current value of a Slide and the v of a StepFunc
C19_SameControls(x, y) ==
    /\ y.b = x.b
    /\ y.c = x.c
    /\ y.d = x.d
    /\ y.e = x.e
    /\ y.f = x.f
    /\ y.fd = x.fd
    /\ x.k \notin {"Slide", "StepFunc"} => y.a = x.a

\* the step took x to y: the same variant with the same controls, or Fixed
C19_SameOrFixed(x, y) ==
    \/ y.k = x.k /\ C19_SameControls(x, y)
    \/ y.k = "Fixed"

\* C19: a step leaves an Animate the same variant or Fixed, never another
\* variant; while the variant stays, no control point changes but a Slide's
\* current value and a StepFunc's v; a Sequence stays a Sequence with the
\* same end, its queue empty or not, and the entry it steps obeys the same
\* rule.
C19_StepKeepsVariant ==
    [][(StepTaken /\ impl = "Animate") =>
          /\ C19_SameOrFixed(obj, obj')
          /\ obj.k = "Sequence" =>
                /\ obj'.k = "Sequence"
                /\ obj'.seq.end = obj.seq.end
                /\ (Len(obj.seq.queue) > 0
                      /\ Len(obj'.seq.queue) = Len(obj.seq.queue)) =>
                      C19_SameOrFixed(obj.seq.queue[1][1],
                                      obj'.seq.queue[1][1])]_vars

\* a Sequence whose queue has played out is still a Sequence, not steady,
\* and outputs end
C19_Witness ==
    /\ impl = "Animate"
    /\ start = Sequence(SeqBefore(SeqNew(Three), 1, Fixed(One)))
    /\ nsteps = 1
    /\ elapsed = 2
    /\ obj = Sequence(SeqNew(Three))
    /\ ~Steady(impl, obj)
    /\ Now(impl, obj) = Three

-----------------------------------------------------------------------------
(* C20 *)

\* C20, as claimed: a SoftSwitch(a, b, e, s, t) built with s < t and e >= 1
\* outputs a while s >= 0 (the instant the window opens included), outputs
\* b at the instant the window closes (t = 0), and is Fixed(b) after t.
\* The blend weight is (1 - s/(s - t))^e, which is 1 when the window opens
\* and 0 when it closes, so the output is b at s = 0 and a at t = 0.
C20_SoftSwitchWindow ==
    (impl = "Animate" /\ start.k = "SoftSwitch" /\ start.s < start.t
       /\ start.e >= 1) =>
        /\ (obj.k = "SoftSwitch" /\ obj.s >= 0) => Now(impl, obj) = start.a
        /\ (obj.k = "SoftSwitch" /\ obj.t = 0) => Now(impl, obj) = start.b
        /\ elapsed > start.t => obj = Fixed(start.b)

-----------------------------------------------------------------------------
(* C21 *)

\* 3 x^2 - 2 x^3, written out
Smoothstep(x) == FSub(FMul(Three, Powi(x, 2)), FMul(Two, Powi(x, 3)))

\* C21: a SmoothSwitch(a, b, s, t) built with s < t has s and t reduced by
\* every dt while the stepped time is at most t, and is Fixed(b) once a step
\* has passed t.  It outputs a while s > 0 and blend(a, b, 3x^2 - 2x^3) with
\* x = s/(s - t) once s <= 0, which is a at s = 0 and b at t = 0.
C21_SmoothSwitchWindow ==
    (impl = "Animate" /\ start.k = "SmoothSwitch" /\ start.s < start.t) =>
        /\ elapsed <= start.t =>
              obj = SmoothSwitch(start.a, start.b, start.s - elapsed,
                                 start.t - elapsed)
        /\ elapsed > start.t => obj = Fixed(start.b)
        /\ obj.k = "SmoothSwitch" =>
              LET x == FDiv(R(obj.s), R(obj.s - obj.t))
              IN  /\ obj.s > 0 => Now(impl, obj) = obj.a
                  /\ obj.s <= 0 =>
                        Now(impl, obj) = Blend(obj.a, obj.b, Smoothstep(x))
                  /\ obj.s = 0 => Now(impl, obj) = obj.a
                  /\ obj.t = 0 => Now(impl, obj) = obj.b

\* half way through a window of two ticks the output is half way from a to b
C21_Witness ==
    /\ impl = "Animate"
    /\ start = SmoothSwitch(Zero, One, 0, 2)
    /\ nsteps = 1
    /\ elapsed = 1
    /\ obj = SmoothSwitch(Zero, One, -1, 1)
    /\ Now(impl, obj) = <<1, 2>>

-----------------------------------------------------------------------------
(* C22 *)

\* C22: bounce_soft(a, b, duration) and bounce_hard(a, b, duration) with
\* duration > 0 build a MixFunc at time 0 that stays a MixFunc, never
\* steady, with its time the stepped time.  The weight of b is 0 at time 0,
\* 1 at duration/2, 0 at duration and 0 after duration, so now() is a at the
\* start and after the duration has passed, and b at the peak.
C22_Bounce ==
    (impl = "Animate" /\ start.k = "MixFunc") =>
        /\ start \in {bounce_soft(start.a, start.b, start.fd),
                      bounce_hard(start.a, start.b, start.fd)}
        /\ start.fd > 0
        /\ obj = [start EXCEPT !.t = elapsed]
        /\ ~Steady(impl, obj)
        /\ LET w == CallMixFunc(obj)
           IN  /\ Now(impl, obj) = Blend(obj.a, obj.b, w)
               /\ elapsed = 0 => (w = Zero /\ Now(impl, obj) = start.a)
               /\ 2 * elapsed = start.fd => (w = One /\ Now(impl, obj) = start.b)
               /\ elapsed = start.fd => (w = Zero /\ Now(impl, obj) = start.a)
               /\ elapsed > start.fd => (w = Zero /\ Now(impl, obj) = start.a)

\* a soft bounce of two ticks from 0 to 1 and back, at its peak after one
\* tick
C22_Witness ==
    /\ impl = "Animate"
    /\ start = bounce_soft(Zero, One, 2)
    /\ nsteps = 1
    /\ elapsed = 1
    /\ obj = MixFunc("bounce_soft", 2, Zero, One, 1)
    /\ Now(impl, obj) = One
    /\ ~Steady(impl, obj)

-----------------------------------------------------------------------------
(* C23 *)

\* x is a number between 0 and 1, both included
InUnit(x) == x[2] > 0 /\ ~FLess(x, Zero) /\ ~FLess(One, x)

\* C23: a BoundedLinear, BoundedQuadratic, BoundedCubic or SmoothSwitch
\* built with s < t and t >= 0 keeps, in every state that is not Fixed, its
\* variant, its window length t - s and t >= 0; so whenever now() blends
\* (s <= 0) the parameter x = s/(s - t) is a number in [0, 1].
C23_WindowKept ==
    (impl = "Animate" /\ start.k \in Bounded \cup {"SmoothSwitch"}
       /\ start.s < start.t /\ start.t >= 0 /\ obj.k # "Fixed") =>
        /\ obj.k = start.k
        /\ obj.t - obj.s = start.t - start.s
        /\ obj.t >= 0
        /\ obj.s <= 0 =>
              /\ obj.s - obj.t # 0
              /\ InUnit(FDiv(R(obj.s), R(obj.s - obj.t)))
              /\ Param(obj) = FDiv(R(obj.s), R(obj.s - obj.t))

\* a BoundedCubic half way through its window of two ticks blends at x = 1/2
C23_Witness ==
    /\ impl = "Animate"
    /\ start = BoundedCubic(Zero, One, Zero, Two, 0, 2)
    /\ nsteps = 1
    /\ elapsed = 1
    /\ obj = BoundedCubic(Zero, One, Zero, Two, -1, 1)
    /\ Param(obj) = <<1, 2>>
    /\ Now(impl, obj) = <<5, 8>>

-----------------------------------------------------------------------------
(* C24 *)

\* C24: a sequence stepped every frame by at least one tick runs out: its
\* queue becomes empty and from then on stays empty, with now() = end and
\* steady() true.  Every remaining duration is >= 0 in every state; no step
\* lengthens the queue or changes end; a step on an empty queue changes
\* nothing; and a single step whose dt exceeds the sum of all remaining
\* durations leaves the empty queue and end, and nothing of the time left.
C24_RunsOut ==
    /\ <>[](/\ Len(obj.queue) = 0
            /\ Now(impl, obj) = obj.end
            /\ Steady(impl, obj))
    /\ [](\A i \in 1 .. Len(obj.queue) : obj.queue[i][2] >= 0)
    /\ [][/\ Len(obj'.queue) <= Len(obj.queue)
          /\ obj'.end = obj.end
          /\ Len(obj.queue) = 0 => obj' = obj
          /\ LastDt > SumDur(obj.queue, Len(obj.queue)) =>
                obj' = SeqNew(obj.end)]_vars

\* two entries of one tick each, passed by one step of three ticks
C24_Witness ==
    /\ impl = "AnimateSequence"
    /\ start.queue = <<<<Fixed(One), 1>>, <<StepFunc("count", Zero), 1>>>>
    /\ nsteps = 1
    /\ elapsed = 3
    /\ obj = SeqNew(Three)
    /\ Now(impl, obj) = Three
    /\ Steady(impl, obj)


\* C25: every reply pointing() returned holds a value once apply() has
\* returned, whatever pointing() and block_pointing() calls came before:
\* until then a reply is empty exactly while its query waits in the heap
\* (it is written at creation when there is no hit or pointing is blocked),
\* a blocked guru has no query waiting, and no expect() of a reply panics.
C25_RepliesAnswered ==
    /\ ~applied =>
          \A i \in 1 .. Len(cells) :
             ~cells[i].full <=> \E q \in guru.queries : q.reply = i
    /\ guru.blocked => guru.queries = {}
    /\ applied => \A i \in 1 .. Len(partials) : cells[partials[i]].full
    /\ ~panicked

\* a hit was queued, pointing was blocked, a later pointing() was answered
\* at once, apply() ran and every reply has been read
C25_Witness ==
    /\ applied
    /\ guru.blocked
    /\ Len(hits) >= 2
    /\ hits[1].hit # <<>>
    /\ hits[Len(hits)].hit # <<>>
    /\ partials = <<>>
    /\ ~panicked


\* the calls of the frame whose ray hit the shape
HitCalls == {i \in 1 .. Len(hits) : hits[i].hit # <<>>}

\* apply() has returned and no reply has been read yet
JustApplied == applied /\ Len(partials) = Len(cells)

\* C26: when pointing is not blocked and several shapes registered with
\* stops = true are hit, apply() delivers Some(hit) to exactly one query,
\* one with the smallest time of impact, and None to every other one.
C26_NearestGetsHit ==
    (/\ JustApplied
     /\ ~guru.blocked
     /\ \A i \in 1 .. Len(hits) : hits[i].stops
     /\ Cardinality(HitCalls) >= 2)
    => \E i \in HitCalls :
          /\ cells[i] = CellHit(hits[i].hit[1])
          /\ \A j \in HitCalls : hits[i].hit[1] <= hits[j].hit[1]
          /\ \A j \in 1 .. Len(cells) : j # i => cells[j] = CellNone


\* the cubes whose grabbed is Some
Grabbed == {i \in 1 .. Len(cubes) : cubes[i]}

\* C27: at the end of every frame at most one cube is grabbed; a cube
\* becomes grabbed only in a frame whose trigger rises through 0.5 and in
\* which it receives the pointing hit; in a frame that starts with a cube
\* grabbed and has the trigger above 0.5 no cube receives a hit and the grab
\* stays as it is; a frame whose trigger is at most 0.5 ends with no cube
\* grabbed.
C27_OneGrab ==
    /\ [](Cardinality(Grabbed) <= 1)
    /\ [][/\ \A i \in 1 .. Len(cubes) :
                ~cubes[i] /\ cubes'[i] =>
                   /\ ctl'.trigger > TriggerHalf
                   /\ ctl'.trigger - ctl'.trigger_delta < TriggerHalf
                   /\ cells'[i].some
          /\ Grabbed # {} /\ ctl'.trigger > TriggerHalf =>
                /\ \A j \in 1 .. Len(cells') : cells'[j] = CellNone
                /\ cubes' = cubes
          /\ ctl'.trigger <= TriggerHalf => \A i \in 1 .. Len(cubes) : ~cubes'[i]
         ]_vars

\* a frame whose trigger rises through 0.5 while the second cube is held:
\* the ray hits a cube visited before it and one visited after it, and
\* neither is grabbed
C27_Witness ==
    /\ Grabbed = {2}
    /\ guru.blocked
    /\ ctl.trigger > TriggerHalf
    /\ ctl.trigger - ctl.trigger_delta < TriggerHalf
    /\ hits[1].hit # <<>>
    /\ hits[3].hit # <<>>
    /\ \A j \in 1 .. Len(cells) : cells[j] = CellNone

=============================================================================
